---- MODULE Spec2Model ----
(***************************************************************************)
(* A model of the stack-VM to Hack translator of vm_translator.py: the     *)
(* Parser, the CodeWriter, the VmTranslator driver, the output file, and   *)
(* the Hack machine on which the emitted assembly runs.                    *)
(*                                                                         *)
(* Text is kept as text: source lines, tokens and emitted instructions are *)
(* strings, split and formatted as the Python code splits and formats them.*)
(***************************************************************************)
EXTENDS Integers, Sequences, FiniteSets, TLC

VARIABLES parser, cw, sink, pc, error, stdout, closes, deleted, history, calls,
          rom, cpu, ram, ram0

vars == <<parser, cw, sink, pc, error, stdout, closes, deleted, history, calls,
          rom, cpu, ram, ram0>>

(***************************************************************************)
(* Bounds of the model.                                                    *)
(***************************************************************************)
\* longest input file (in lines) of the driver specification
MaxLines == 2
\* explicit close() calls a caller makes on one translator
MaxCloses == 2
\* longest arithmetic-only program that is translated and then executed
MaxProg == 2
\* direct CodeWriter calls a caller makes, over all instances
MaxCalls == 4
\* parser.advance() calls of the caller itself that consume an instruction
MaxAdvances == 3
\* operands 0..MaxOperand (and their negatives) are tried besides the edge values
MaxOperand == 2

(***************************************************************************)
(* str methods used by the code: strip(), split("//")[0], split(),         *)
(* startswith("("), "{}".format(int).                                      *)
(***************************************************************************)
\* the characters str.strip() and str.split() take for whitespace, as far as a
\* string of the model can hold them: space, tab, LF, CR, FF, then VT (U+000B),
\* FS, GS, RS, US (U+001C..U+001F), NEL (U+0085), the no-break space (U+00A0)
\* and the Ogham space mark (U+1680).  The remaining ones (U+2000..U+200A,
\* U+2028, U+2029, U+202F, U+205F, U+3000) cannot be written in a string here.
IsWs(c) ==
    c \in {" ", "\t", "\n", "\r", "\f",
           "", "", "", "", "", "", " ", " "}

RECURSIVE LStrip(_)
LStrip(s) == IF Len(s) > 0 /\ IsWs(Head(s)) THEN LStrip(Tail(s)) ELSE s

RECURSIVE RStrip(_)
RStrip(s) ==
    IF Len(s) > 0 /\ IsWs(SubSeq(s, Len(s), Len(s)))
    THEN RStrip(SubSeq(s, 1, Len(s) - 1))
    ELSE s

Strip(s) == RStrip(LStrip(s))

\* s.split("//")[0]: the text before the first "//"
RECURSIVE BeforeComment(_)
BeforeComment(s) ==
    IF Len(s) < 2 THEN s
    ELSE IF SubSeq(s, 1, 2) = "//" THEN ""
    ELSE Head(s) \o BeforeComment(Tail(s))

RECURSIVE SplitAcc(_, _, _)
SplitAcc(s, cur, acc) ==
    IF Len(s) = 0
    THEN (IF cur = "" THEN acc ELSE Append(acc, cur))
    ELSE IF IsWs(Head(s))
         THEN SplitAcc(Tail(s), "", IF cur = "" THEN acc ELSE Append(acc, cur))
         ELSE SplitAcc(Tail(s), cur \o Head(s), acc)

\* s.split(): the maximal runs of non-whitespace
Split(s) == SplitAcc(s, "", <<>>)

StartsWith(s, c) == Len(s) > 0 /\ Head(s) = c

(***************************************************************************)
(* Python values that reach CodeWriter.write_push_pop as `index`: the      *)
(* parser hands over a str token, a direct caller may hand over an int.    *)
(* s is what "{}".format(value) prints.                                    *)
(***************************************************************************)
PyStr(s) == [ty |-> "str", s |-> s, n |-> 0]
PyInt(n) == [ty |-> "int", s |-> ToString(n), n |-> n]
PyNone == [ty |-> "none", s |-> "None", n |-> 0]
Format(v) == v.s

(***************************************************************************)
(* _CommandType                                                            *)
(***************************************************************************)
arithmetic_commands == {"add", "sub", "neg", "eq", "gt", "lt", "and", "or", "not"}

\* the command type of a first token, or "ValueError" when from_string raises
from_string(command) ==
    IF command \in arithmetic_commands THEN "C_ARITHMETIC"
    ELSE IF command = "push" THEN "C_PUSH"
    ELSE IF command = "pop" THEN "C_POP"
    ELSE IF StartsWith(command, "(") THEN "C_LABEL"
    ELSE IF command = "goto" THEN "C_GOTO"
    ELSE IF command = "function" THEN "C_FUNCTION"
    ELSE IF command = "return" THEN "C_RETURN"
    ELSE IF command = "call" THEN "C_CALL"
    ELSE "ValueError"

(***************************************************************************)
(* Parser                                                                  *)
(***************************************************************************)
\* the loop of Parser.__init__: comments and empty lines removed, order kept
NotEmpty(instruction) == instruction # ""

retained(raw_vm_instructions) ==
    SelectSeq([i \in 1..Len(raw_vm_instructions) |->
                  BeforeComment(Strip(raw_vm_instructions[i]))],
              NotEmpty)

NoInstruction == [type |-> "None", arg1 |-> "", arg2 |-> PyNone]

ParserInit(raw_vm_instructions) ==
    [vm_instructions |-> retained(raw_vm_instructions),
     current_instruction_index |-> 0,
     current_parsed_instruction |-> NoInstruction]

\* _parse_instruction: [err, ins]; err is "none", "ValueError" (from_string)
\* or "IndexError" (a token the instruction does not have)
parse_instruction(raw_instruction) ==
    LET split_instruction == Split(raw_instruction)
        instruction_type == from_string(split_instruction[1])
    IN  IF instruction_type = "ValueError"
        THEN [err |-> "ValueError", ins |-> NoInstruction]
        ELSE IF instruction_type = "C_ARITHMETIC"
        THEN [err |-> "none",
              ins |-> [type |-> instruction_type,
                       arg1 |-> split_instruction[1],
                       arg2 |-> PyNone]]
        ELSE IF Len(split_instruction) < 3
        THEN [err |-> "IndexError", ins |-> NoInstruction]
        ELSE [err |-> "none",
              ins |-> [type |-> instruction_type,
                       arg1 |-> split_instruction[2],
                       arg2 |-> PyStr(split_instruction[3])]]

has_more_lines(p) == p.current_instruction_index < Len(p.vm_instructions)

current_raw_instruction(p) == p.vm_instructions[p.current_instruction_index]

\* advance: raises with no line left; otherwise the index moves first and the
\* parsed instruction is replaced only when parsing does not raise
advance(p) ==
    IF ~has_more_lines(p) THEN [err |-> "ValueError", p |-> p] ELSE
    LET q == [p EXCEPT !.current_instruction_index = @ + 1]
        r == parse_instruction(current_raw_instruction(q))
    IN  [err |-> r.err,
         p |-> IF r.err = "none"
               THEN [q EXCEPT !.current_parsed_instruction = r.ins]
               ELSE q]

(***************************************************************************)
(* CodeWriter: one record per instance.                                    *)
(***************************************************************************)
registers == [sp |-> 0, lcl |-> 1, arg |-> 2, this |-> 3, that |-> 4,
              temp |-> 5, static |-> 16]

default_bases == [sp |-> 256]

prologue == <<"// initialize register values", "@256", "D=A", "@SP", "M=D">>

epilogue == <<"(END)", "@END", "0;JMP">>

CodeWriterInit(out_file) ==
    [assembly |-> <<prologue>>,
     temp_vm_instruction |-> <<>>,
     lt_counter |-> 0,
     out_file |-> out_file]

\* a pop that reads the top but leaves the stack pointer where it was
pop_to_d_keeps_sp == <<"@SP", "A=M-1", "D=M">>

pop_to_d == <<"@SP", "AM=M-1", "D=M">>

\* gt that also jumps on equal operands
comparison_jump_ge(comparison) ==
    IF comparison = "eq" THEN "JEQ"
    ELSE IF comparison = "gt" THEN "JGE"
    ELSE IF comparison = "lt" THEN "JLT"
    ELSE "ValueError"

\* the jump mnemonic of a comparison, "ValueError" for any other word
comparison_jump(comparison) ==
    IF comparison = "eq" THEN "JEQ"
    ELSE IF comparison = "gt" THEN "JGT"
    ELSE IF comparison = "lt" THEN "JLT"
    ELSE "ValueError"

\* the instructions _generate_comparison appends, labels numbered n
comparison_block(instruction, n) ==
    << "@SP", "AM=M-1", "D=M",
       "@SP", "AM=M-1", "D=M-D",
       "@LT_TRUE_" \o ToString(n),
       "D;" \o instruction,
       "@SP", "A=M", "M=0",
       "@LT_END_" \o ToString(n),
       "0;JMP",
       "(LT_TRUE_" \o ToString(n) \o ")",
       "@SP", "A=M", "M=-1",
       "(LT_END_" \o ToString(n) \o ")",
       "@SP", "M=M+1" >>

\* a counter that is never incremented
next_lt_counter_stuck(n) == n

next_lt_counter(n) == n + 1

generate_comparison(w, comparison) ==
    LET instruction == comparison_jump(comparison)
    IN  IF instruction = "ValueError"
        THEN [err |-> "ValueError", w |-> w]
        ELSE [err |-> "none",
              w |-> [w EXCEPT
                       !.temp_vm_instruction =
                           @ \o comparison_block(instruction, w.lt_counter),
                       !.lt_counter = next_lt_counter(@)]]

\* binary operators that combine into the popped slot, not the one below
binary_block_in_place(command) ==
    IF command = "add"
    THEN <<"// add">> \o pop_to_d \o <<"M=M+D">>
    ELSE IF command = "sub"
    THEN <<"// sub">> \o pop_to_d \o <<"M=M-D">>
    ELSE LET operator == IF command = "and" THEN "&" ELSE "|"
         IN  <<"// " \o command>> \o pop_to_d \o <<"M=M" \o operator \o "D">>

\* the block of add, sub, and, or
binary_block(command) ==
    IF command = "add"
    THEN <<"// add">> \o pop_to_d \o <<"A=A-1", "M=M+D">>
    ELSE IF command = "sub"
    THEN <<"// sub">> \o pop_to_d \o <<"A=A-1", "M=M-D">>
    ELSE LET operator == IF command = "and" THEN "&" ELSE "|"
         IN  <<"// " \o command>> \o pop_to_d
                 \o <<"A=A-1", "M=M" \o operator \o "D">>

\* the block of neg, not
unary_block(command) ==
    IF command = "neg"
    THEN <<"// neg", "@SP", "A=M-1", "M=-M">>
    ELSE <<"// not", "@SP", "A=M-1", "M=!M">>

\* a cleanup that puts the block in front of the program
append_block_front(w) ==
    [w EXCEPT !.assembly = <<w.temp_vm_instruction>> \o @,
              !.temp_vm_instruction = <<>>]

\* the cleanup of both write methods: the block is appended, the buffer emptied
append_block(w) ==
    [w EXCEPT !.assembly = Append(@, w.temp_vm_instruction),
              !.temp_vm_instruction = <<>>]

write_arithmetic(w0, command) ==
    LET w == [w0 EXCEPT !.temp_vm_instruction = <<>>]
    IN  IF command \in {"add", "sub"}
        THEN [err |-> "none",
              w |-> append_block([w EXCEPT !.temp_vm_instruction =
                                               @ \o binary_block(command)])]
        ELSE IF command = "neg"
        THEN [err |-> "none",
              w |-> append_block([w EXCEPT !.temp_vm_instruction =
                                               @ \o unary_block(command)])]
        ELSE IF command \in {"lt", "gt", "eq"}
        THEN LET r == generate_comparison(w, command)
             IN  IF r.err # "none"
                 THEN [err |-> r.err, w |-> r.w]
                 ELSE [err |-> "none", w |-> append_block(r.w)]
        ELSE IF command \in {"and", "or"}
        THEN [err |-> "none",
              w |-> append_block([w EXCEPT !.temp_vm_instruction =
                                               @ \o binary_block(command)])]
        ELSE IF command = "not"
        THEN [err |-> "none",
              w |-> append_block([w EXCEPT !.temp_vm_instruction =
                                               @ \o unary_block(command)])]
        ELSE [err |-> "ValueError", w |-> w]

\* a push that stores the constant but does not move the stack pointer
push_constant_block_no_inc(index) ==
    <<"@" \o Format(index), "D=A", "@SP", "A=M", "M=D">>

push_constant_block(index) ==
    <<"@" \o Format(index), "D=A", "@SP", "A=M", "M=D", "@SP", "M=M+1">>

\* default_bases[segment] + index: "KeyError" for a segment the table does
\* not have, "TypeError" for int + str
segment_address(segment, index) ==
    IF segment \notin DOMAIN default_bases THEN [err |-> "KeyError", n |-> 0]
    ELSE IF index.ty # "int" THEN [err |-> "TypeError", n |-> 0]
    ELSE [err |-> "none", n |-> default_bases[segment] + index.n]

push_segment_block(address) ==
    <<"@" \o ToString(address), "A=M", "D=M", "@SP", "A=M", "M=D", "@SP", "M=M+1">>

pop_segment_head == <<"@SP", "M=M-1", "@SP", "A=M", "D=M">>

pop_segment_tail(address) == <<"@" \o ToString(address), "M=D">>

\* the echo comment: everything that is not C_POP is echoed as a push
echo_comment(command, segment, index) ==
    "// " \o (IF command = "C_POP" THEN "pop" ELSE "push")
          \o " " \o segment \o " " \o Format(index)

\* write_push_pop does not empty the buffer first, and what it appended
\* before raising stays in the buffer
write_push_pop(w0, command, segment, index) ==
    LET w == [w0 EXCEPT !.temp_vm_instruction =
                            Append(@, echo_comment(command, segment, index))]
        a == segment_address(segment, index)
    IN  IF segment = "constant"
        THEN IF command = "C_PUSH"
             THEN [err |-> "none",
                   w |-> append_block([w EXCEPT !.temp_vm_instruction =
                                         @ \o push_constant_block(index)])]
             ELSE [err |-> "none", w |-> append_block(w)]
        ELSE IF command = "C_PUSH"
        THEN IF a.err # "none"
             THEN [err |-> a.err, w |-> w]
             ELSE [err |-> "none",
                   w |-> append_block([w EXCEPT !.temp_vm_instruction =
                                         @ \o push_segment_block(a.n)])]
        ELSE LET v == [w EXCEPT !.temp_vm_instruction = @ \o pop_segment_head]
             IN  IF a.err # "none"
                 THEN [err |-> a.err, w |-> v]
                 ELSE [err |-> "none",
                       w |-> append_block([v EXCEPT !.temp_vm_instruction =
                                             @ \o pop_segment_tail(a.n)])]

\* the lines of the blocks, block after block (by halves, to keep it shallow)
RECURSIVE Flatten(_)
Flatten(blocks) ==
    IF blocks = <<>> THEN <<>>
    ELSE IF Len(blocks) = 1 THEN blocks[1]
    ELSE LET h == Len(blocks) \div 2
         IN  Flatten(SubSeq(blocks, 1, h)) \o Flatten(SubSeq(blocks, h + 1, Len(blocks)))

\* the output file: how often it was opened for writing, and the lines it holds
NoFile == [opens |-> 0, lines |-> <<>>]

\* CodeWriter.close: [w, f], the writer and its output file afterwards
close(w, f) ==
    LET v == [w EXCEPT !.assembly = Append(@, epilogue)]
    IN  [w |-> v,
         f |-> [opens |-> f.opens + 1, lines |-> Flatten(v.assembly)]]

\* CodeWriter.close when open() raises: the epilogue is in the buffer already,
\* the file is neither opened nor written
close_interrupted(w) == [w EXCEPT !.assembly = Append(@, epilogue)]

(***************************************************************************)
(* The Hack machine that runs the emitted text.  Words are 16 bits wide.   *)
(* The program counter indexes the lines of the text; comment lines and    *)
(* label lines hold no instruction and are stepped over.                   *)
(***************************************************************************)
WordBits == 16

RECURSIVE Pow2(_)
Pow2(n) == IF n = 0 THEN 1 ELSE 2 * Pow2(n - 1)

Word == Pow2(WordBits)

Wrap(x) == x % Word

\* the two's complement reading of a word
Signed(x) == IF x >= Word \div 2 THEN x - Word ELSE x

RECURSIVE BitAnd(_, _, _)
BitAnd(x, y, bits) ==
    IF bits = 0 THEN 0
    ELSE (x % 2) * (y % 2) + 2 * BitAnd(x \div 2, y \div 2, bits - 1)

BitNot(x) == Word - 1 - x

BitOr(x, y) == BitNot(BitAnd(BitNot(x), BitNot(y), WordBits))

\* the position of the first c in s, 0 when there is none
RECURSIVE IndexOf(_, _)
IndexOf(s, c) ==
    IF Len(s) = 0 THEN 0
    ELSE IF Head(s) = c THEN 1
    ELSE LET i == IndexOf(Tail(s), c) IN IF i = 0 THEN 0 ELSE i + 1

IsDigit(c) == c \in {"0", "1", "2", "3", "4", "5", "6", "7", "8", "9"}

DigitVal(c) ==
    CASE c = "0" -> 0 [] c = "1" -> 1 [] c = "2" -> 2 [] c = "3" -> 3
      [] c = "4" -> 4 [] c = "5" -> 5 [] c = "6" -> 6 [] c = "7" -> 7
      [] c = "8" -> 8 [] c = "9" -> 9

RECURSIVE IsNumber(_)
IsNumber(s) ==
    Len(s) > 0 /\ IsDigit(Head(s)) /\ (Len(s) = 1 \/ IsNumber(Tail(s)))

RECURSIVE ParseNat(_, _)
ParseNat(s, acc) ==
    IF Len(s) = 0 THEN acc ELSE ParseNat(Tail(s), 10 * acc + DigitVal(Head(s)))

IsCommentLine(s) == Len(s) >= 2 /\ SubSeq(s, 1, 2) = "//"
IsLabelLine(s) == StartsWith(s, "(")
IsAInstruction(s) == StartsWith(s, "@")

IsInstructionLine(s) == ~IsCommentLine(s) /\ ~IsLabelLine(s)

\* the first line at or after i that holds an instruction (Len + 1: none)
RECURSIVE SkipTo(_, _)
SkipTo(text, i) ==
    IF i > Len(text) THEN Len(text) + 1
    ELSE IF IsInstructionLine(text[i]) THEN i
    ELSE SkipTo(text, i + 1)

\* the ROM address of the instruction at or after line i: the number of
\* instructions before it (addresses count from 0)
RomAddress(text, i) ==
    Cardinality({j \in 1..(i - 1) : j <= Len(text) /\ IsInstructionLine(text[j])})

\* the first line among lo..hi with more than r instructions up to and
\* including it (found by halving; hi when there is none before it)
RECURSIVE LineWith(_, _, _, _)
LineWith(text, lo, hi, r) ==
    IF lo >= hi THEN hi
    ELSE LET mid == (lo + hi) \div 2
         IN  IF RomAddress(text, mid + 1) > r
             THEN LineWith(text, lo, mid, r)
             ELSE LineWith(text, mid + 1, hi, r)

\* the line of the instruction at ROM address r (Len + 1: past the end of
\* the text)
LineOfRom(text, r) == LineWith(text, 1, Len(text) + 1, r)

\* the lines that define label name
LabelLines(text, name) == {i \in 1..Len(text) : text[i] = "(" \o name \o ")"}

\* the parts of dest=comp;jump
CDest(s) == LET i == IndexOf(s, "=") IN IF i = 0 THEN "" ELSE SubSeq(s, 1, i - 1)

CRest(s) == LET i == IndexOf(s, "=") IN IF i = 0 THEN s ELSE SubSeq(s, i + 1, Len(s))

CComp(s) ==
    LET r == CRest(s) j == IndexOf(r, ";")
    IN  IF j = 0 THEN r ELSE SubSeq(r, 1, j - 1)

CJump(s) ==
    LET r == CRest(s) j == IndexOf(r, ";")
    IN  IF j = 0 THEN "" ELSE SubSeq(r, j + 1, Len(r))

UsesM(s) == IndexOf(CDest(s), "M") > 0 \/ IndexOf(CComp(s), "M") > 0

\* the value of a comp mnemonic, as a word
Comp(c, a, d, m) ==
    CASE c = "0" -> 0
      [] c = "1" -> 1
      [] c = "-1" -> Wrap(0 - 1)
      [] c = "D" -> d
      [] c = "A" -> a
      [] c = "M" -> m
      [] c = "!D" -> BitNot(d)
      [] c = "!A" -> BitNot(a)
      [] c = "!M" -> BitNot(m)
      [] c = "-D" -> Wrap(0 - d)
      [] c = "-A" -> Wrap(0 - a)
      [] c = "-M" -> Wrap(0 - m)
      [] c = "D+1" -> Wrap(d + 1)
      [] c = "A+1" -> Wrap(a + 1)
      [] c = "M+1" -> Wrap(m + 1)
      [] c = "D-1" -> Wrap(d - 1)
      [] c = "A-1" -> Wrap(a - 1)
      [] c = "M-1" -> Wrap(m - 1)
      [] c \in {"D+A", "A+D"} -> Wrap(d + a)
      [] c \in {"D+M", "M+D"} -> Wrap(d + m)
      [] c = "D-A" -> Wrap(d - a)
      [] c = "D-M" -> Wrap(d - m)
      [] c = "A-D" -> Wrap(a - d)
      [] c = "M-D" -> Wrap(m - d)
      [] c \in {"D&A", "A&D"} -> BitAnd(d, a, WordBits)
      [] c \in {"D&M", "M&D"} -> BitAnd(d, m, WordBits)
      [] c \in {"D|A", "A|D"} -> BitOr(d, a)
      [] c \in {"D|M", "M|D"} -> BitOr(d, m)

\* whether a jump mnemonic jumps on the word v
Jumps(j, v) ==
    CASE j = "" -> FALSE
      [] j = "JGT" -> Signed(v) > 0
      [] j = "JEQ" -> v = 0
      [] j = "JGE" -> Signed(v) >= 0
      [] j = "JLT" -> Signed(v) < 0
      [] j = "JNE" -> v # 0
      [] j = "JLE" -> Signed(v) <= 0
      [] j = "JMP" -> TRUE

CpuOff == [A |-> 0, D |-> 0, PC |-> 0, status |-> "off"]

CpuStart(text, a, d) == [A |-> a, D |-> d, PC |-> SkipTo(text, 1), status |-> "run"]

\* the address an A-instruction loads: a number, the predefined SP, or a label
\* of the text (every line that defines it, should it be defined twice)
ATargets(text, s) ==
    LET name == Tail(s)
    IN  IF IsNumber(name) THEN {ParseNat(name, 0)}
        ELSE IF name = "SP" THEN {registers.sp}
        ELSE {RomAddress(text, i) : i \in LabelLines(text, name)}

\* one instruction, the one at line c.PC, with the A-instruction's address
\* already chosen
Execute(text, c, mem, target) ==
    LET s == text[c.PC]
    IN  IF IsAInstruction(s)
        THEN [c |-> [c EXCEPT !.A = target, !.PC = SkipTo(text, c.PC + 1)],
              mem |-> mem]
        ELSE IF UsesM(s) /\ c.A \notin DOMAIN mem
        THEN [c |-> [c EXCEPT !.status = "fault"], mem |-> mem]
        ELSE LET m == IF UsesM(s) THEN mem[c.A] ELSE 0
                 v == Comp(CComp(s), c.A, c.D, m)
                 dest == CDest(s)
                 to == IF Jumps(CJump(s), v)
                       THEN LineOfRom(text, c.A)
                       ELSE SkipTo(text, c.PC + 1)
             IN  [c |-> [A |-> IF IndexOf(dest, "A") > 0 THEN v ELSE c.A,
                         D |-> IF IndexOf(dest, "D") > 0 THEN v ELSE c.D,
                         PC |-> to,
                         status |-> c.status],
                  mem |-> IF IndexOf(dest, "M") > 0
                          THEN [mem EXCEPT ![c.A] = v]
                          ELSE mem]

(***************************************************************************)
(* The driver: one VmTranslator, its Parser and its CodeWriter, and the    *)
(* caller that holds it.  The caller may call translate(), close() and     *)
(* parser.advance() in any order and any number of times, catching what    *)
(* they raise, until the object is dropped.                                *)
(*   pc       "new" before the first translate(), "running" inside its     *)
(*            loop, then how the last translate() ended                    *)
(*   error    what the last call raised, "none" when it returned           *)
(*   history  the calls so far, oldest first: one entry per instruction    *)
(*            consumed ("translated" or "raised" by a turn of translate(), *)
(*            "advanced" or "failed" by the caller's own advance()), and   *)
(*            "close" and "del"                                            *)
(***************************************************************************)
Writers == {1, 2}

NotConstructed ==
    [assembly |-> <<>>, temp_vm_instruction |-> <<>>, lt_counter |-> 0, out_file |-> 0]

\* the input files of the driver specification
SourceLines ==
    { "push constant 7", "add", "eq", " \tneg// negate the top  ", "", "// a comment",
      "pop local 0", "pop sp 0", "push foo 0", "foo 1 2", "push constant",
      "(LOOP)", "if-goto LOOP", "return", "call f 2" }

Files(lines, n) == UNION {[1..k -> lines] : k \in 0..n}

\* VmTranslator.__init__ on an input file
Constructed(raw_vm_instructions) ==
    /\ parser = ParserInit(raw_vm_instructions)
    /\ cw = [w \in Writers |-> IF w = 1 THEN CodeWriterInit(1) ELSE NotConstructed]
    /\ sink = [w \in Writers |-> NoFile]
    /\ pc = "new"
    /\ error = "none"
    /\ stdout = <<>>
    /\ closes = 0
    /\ deleted = FALSE
    /\ history = <<>>
    /\ calls = [w \in Writers |-> <<>>]
    /\ rom = <<>>
    /\ cpu = CpuOff
    /\ ram = <<>>
    /\ ram0 = <<>>

Init == \E f \in Files(SourceLines, MaxLines) : Constructed(f)

\* what one turn of the loop of translate() does to the writer: [err, w, out]
dispatch(ins, w) ==
    IF ins.type = "C_ARITHMETIC"
    THEN LET r == write_arithmetic(w, ins.arg1)
         IN  [err |-> r.err, w |-> r.w, out |-> <<>>]
    ELSE IF ins.type \in {"C_PUSH", "C_POP"}
    THEN LET r == write_push_pop(w, ins.type, ins.arg1, ins.arg2)
         IN  [err |-> r.err, w |-> r.w, out |-> <<>>]
    ELSE [err |-> "none", w |-> w, out |-> <<"Not implemented yet">>]

\* one turn of the loop of translate(): advance, then dispatch.  The turn is
\* the first of a call when pc is not "running": translate() may be called on
\* a new translator, after close(), and again after it raised, and then goes
\* on with the next instruction.
translate_step ==
    /\ ~deleted
    /\ has_more_lines(parser)
    /\ LET a == advance(parser)
           r == dispatch(a.p.current_parsed_instruction, cw[1])
       IN  /\ parser' = a.p
           /\ IF a.err # "none"
              THEN /\ pc' = "raised"
                   /\ error' = a.err
                   /\ history' = Append(history, "raised")
                   /\ UNCHANGED <<cw, stdout>>
              ELSE /\ cw' = [cw EXCEPT ![1] = r.w]
                   /\ stdout' = stdout \o r.out
                   /\ pc' = IF r.err # "none" THEN "raised" ELSE "running"
                   /\ error' = r.err
                   /\ history' = Append(history,
                                        IF r.err # "none" THEN "raised" ELSE "translated")
    /\ UNCHANGED <<sink, closes, deleted, calls, rom, cpu, ram, ram0>>

\* the loop of translate() ends, at once when no instruction is left
translate_return ==
    /\ ~deleted
    /\ ~has_more_lines(parser)
    /\ pc' = "returned"
    /\ error' = "none"
    /\ UNCHANGED <<parser, cw, sink, stdout, closes, deleted, history, calls,
                   rom, cpu, ram, ram0>>

\* the entries of the history made by the caller's own advance()
IsDirect(e) == e \in {"advanced", "failed"}

\* parser.advance() called by the caller itself, as test_translator.py does:
\* the instruction is consumed and nothing is written for it.  (The caller
\* runs between calls of translate(), which has no suspension point.)
parser_advance ==
    /\ ~deleted
    /\ pc # "running"
    /\ has_more_lines(parser) => Len(SelectSeq(history, IsDirect)) < MaxAdvances
    /\ LET a == advance(parser)
       IN  /\ parser' = a.p
           /\ error' = a.err
           /\ history' = IF ~has_more_lines(parser) THEN history
                         ELSE Append(history,
                                     IF a.err # "none" THEN "failed" ELSE "advanced")
    /\ UNCHANGED <<cw, sink, pc, stdout, closes, deleted, calls, rom, cpu, ram, ram0>>

\* VmTranslator.close(), at any time between the calls of translate()
vm_close ==
    /\ ~deleted
    /\ pc # "running"
    /\ closes < MaxCloses
    /\ LET r == close(cw[1], sink[cw[1].out_file])
       IN  /\ cw' = [cw EXCEPT ![1] = r.w]
           /\ sink' = [sink EXCEPT ![cw[1].out_file] = r.f]
    /\ closes' = closes + 1
    /\ error' = "none"
    /\ history' = Append(history, "close")
    /\ UNCHANGED <<parser, pc, stdout, deleted, calls, rom, cpu, ram, ram0>>

\* CodeWriter.__del__, when the translator is dropped: by the caller while the
\* interpreter is alive (close() runs through), or at interpreter shutdown,
\* where open() may be gone already and close() stops at it with a NameError
\* that is reported and ignored.
del ==
    /\ ~deleted
    /\ pc # "running"
    /\ \E alive \in BOOLEAN :
          IF alive
          THEN LET r == close(cw[1], sink[cw[1].out_file])
               IN  /\ cw' = [cw EXCEPT ![1] = r.w]
                   /\ sink' = [sink EXCEPT ![cw[1].out_file] = r.f]
          ELSE /\ cw' = [cw EXCEPT ![1] = close_interrupted(cw[1])]
               /\ sink' = sink
    /\ deleted' = TRUE
    /\ history' = Append(history, "del")
    /\ UNCHANGED <<parser, pc, error, stdout, closes, calls, rom, cpu, ram, ram0>>

Next == translate_step \/ translate_return \/ parser_advance \/ vm_close \/ del

Spec == Init /\ [][Next]_vars

(***************************************************************************)
(* Running the output file of a translation on the Hack machine.           *)
(***************************************************************************)
\* the programs that are executed: push constant and the nine operators
ArithLines == {"push constant 7", "push constant 8"} \cup arithmetic_commands

StackBase == 256

\* the memory the executed programs can touch: SP and the slots around the
\* stack base (a program of n operators on an empty stack reaches n + 1 below)
RamWindow(instructions) ==
    LET n == Len(instructions)
    IN  IF StackBase - 2 * n - 2 > registers.sp
        THEN {registers.sp} \cup ((StackBase - 2 * n - 2)..(StackBase + n + 1))
        ELSE (registers.sp..(StackBase + n + 1)) \cup {Word - 2, Word - 1}

ScenarioA == <<"push constant 7", "push constant 8", "add">>

\* n times add: each pops one value more than the stack holds
Adds(n) == [i \in 1..n |-> "add"]

\* programs that take the stack pointer down to the registers at the bottom
\* of memory: the last operator runs with the stack pointer at 3, 2 and 1
DeepPrograms ==
    { Adds(StackBase - 3) \o <<"neg">>,
      Adds(StackBase - 2) \o <<"eq">>,
      Adds(StackBase - 1) \o <<"neg">> }

\* the short programs over these lines, the program of scenario A, and the
\* deep programs
InitExec ==
    \E f \in Files(ArithLines, MaxProg) \cup {ScenarioA} \cup DeepPrograms : Constructed(f)

\* the calls of __main__: translate() through the whole file, close(), and the
\* drop of the translator when the process ends
MainRun ==
    history = [i \in 1..Len(parser.vm_instructions) |-> "translated"] \o <<"close", "del">>

\* the file a run of __main__ has left behind is loaded into the machine
cpu_load ==
    /\ MainRun
    /\ cpu.status = "off"
    /\ sink[1].opens >= 1
    /\ rom' = sink[1].lines
    /\ cpu' = CpuStart(sink[1].lines, 0, 0)
    /\ ram' = [a \in RamWindow(parser.vm_instructions) |-> 0]
    /\ ram0' = [a \in RamWindow(parser.vm_instructions) |-> 0]
    /\ UNCHANGED <<parser, cw, sink, pc, error, stdout, closes, deleted, history, calls>>

\* the state after one instruction: past the last line the machine is done
Landed(text, r) ==
    IF r.c.status = "run" /\ r.c.PC > Len(text)
    THEN [r EXCEPT !.c.status = "done"]
    ELSE r

\* the machine executes one instruction
cpu_step ==
    /\ cpu.status = "run"
    /\ cpu.PC <= Len(rom)
    /\ LET s == rom[cpu.PC]
           targets == IF IsAInstruction(s) THEN ATargets(rom, s) ELSE {0}
       IN  IF targets = {}
           THEN /\ cpu' = [cpu EXCEPT !.status = "fault"]
                /\ ram' = ram
           ELSE \E t \in targets :
                    LET r == Landed(rom, Execute(rom, cpu, ram, t))
                    IN  /\ cpu' = r.c
                        /\ ram' = r.mem
    /\ UNCHANGED <<parser, cw, sink, pc, error, stdout, closes, deleted, history, calls,
                   rom, ram0>>

NextExec ==
    \/ translate_step \/ translate_return \/ parser_advance \/ vm_close \/ del
    \/ cpu_load \/ cpu_step

SpecExec == InitExec /\ [][NextExec]_vars

\* the machine is in the halting loop of an epilogue, at its jump
Halted ==
    /\ cpu.status = "run"
    /\ cpu.PC >= 2
    /\ cpu.PC <= Len(rom)
    /\ rom[cpu.PC] = "0;JMP"
    /\ rom[cpu.PC - 1] = "@END"

\* +1 per push, -1 per binary operator or comparison, 0 per neg and not
StackEffect(instruction) ==
    LET t == Split(instruction)
    IN  IF t[1] = "push" THEN 1
        ELSE IF t[1] \in {"neg", "not"} THEN 0
        ELSE 0 - 1

RECURSIVE NetPush(_)
NetPush(instructions) ==
    IF instructions = <<>> THEN 0
    ELSE IF Len(instructions) = 1 THEN StackEffect(instructions[1])
    ELSE LET h == Len(instructions) \div 2
         IN  NetPush(SubSeq(instructions, 1, h))
                 + NetPush(SubSeq(instructions, h + 1, Len(instructions)))

(***************************************************************************)
(* CodeWriter used directly: a caller constructs instances and calls       *)
(* write_arithmetic, write_push_pop and close on them, catching what they  *)
(* raise.  calls[w] is the log of the calls made on instance w.            *)
(***************************************************************************)
DirectArithmetic == {"eq", "gt", "lt", "add", "mul"}

\* <<command, segment, index>> of the direct write_push_pop calls
DirectPushPop ==
    { <<"C_PUSH", "constant", PyInt(7)>>,
      <<"C_PUSH", "sp", PyInt(0)>>,
      <<"C_POP", "local", PyStr("0")>> }

TotalCalls == Len(calls[1]) + Len(calls[2])

Unconstructed ==
    /\ parser = ParserInit(<<>>)
    /\ cw = [w \in Writers |-> NotConstructed]
    /\ sink = [w \in Writers |-> NoFile]
    /\ pc = "direct"
    /\ error = "none"
    /\ stdout = <<>>
    /\ closes = 0
    /\ deleted = FALSE
    /\ history = <<>>
    /\ calls = [w \in Writers |-> <<>>]
    /\ rom = <<>>
    /\ cpu = CpuOff

InitCW == Unconstructed /\ ram = <<>> /\ ram0 = <<>>

\* CodeWriter(out_file)
construct(w) ==
    /\ pc = "direct"
    /\ cw[w] = NotConstructed
    /\ cw' = [cw EXCEPT ![w] = CodeWriterInit(w)]
    /\ UNCHANGED <<parser, sink, pc, error, stdout, closes, deleted, history, calls,
                   rom, cpu, ram, ram0>>

\* cw[w].write_arithmetic(command)
call_write_arithmetic(w, command) ==
    /\ pc = "direct"
    /\ cw[w] # NotConstructed
    /\ TotalCalls < MaxCalls
    /\ LET r == write_arithmetic(cw[w], command)
       IN  /\ cw' = [cw EXCEPT ![w] = r.w]
           /\ error' = r.err
    /\ calls' = [calls EXCEPT ![w] = Append(@, command)]
    /\ UNCHANGED <<parser, sink, pc, stdout, closes, deleted, history, rom, cpu, ram, ram0>>

\* cw[w].write_push_pop(command, segment, index)
call_write_push_pop(w, command, segment, index) ==
    /\ pc = "direct"
    /\ cw[w] # NotConstructed
    /\ TotalCalls < MaxCalls
    /\ LET r == write_push_pop(cw[w], command, segment, index)
       IN  /\ cw' = [cw EXCEPT ![w] = r.w]
           /\ error' = r.err
    /\ calls' = [calls EXCEPT ![w] =
                    Append(@, IF command = "C_POP" THEN "pop" ELSE "push")]
    /\ UNCHANGED <<parser, sink, pc, stdout, closes, deleted, history, rom, cpu, ram, ram0>>

\* cw[w].close()
call_close(w) ==
    /\ pc = "direct"
    /\ cw[w] # NotConstructed
    /\ TotalCalls < MaxCalls
    /\ LET r == close(cw[w], sink[cw[w].out_file])
       IN  /\ cw' = [cw EXCEPT ![w] = r.w]
           /\ sink' = [sink EXCEPT ![cw[w].out_file] = r.f]
    /\ error' = "none"
    /\ calls' = [calls EXCEPT ![w] = Append(@, "close")]
    /\ UNCHANGED <<parser, pc, stdout, closes, deleted, history, rom, cpu, ram, ram0>>

NextCW ==
    \E w \in Writers :
        \/ construct(w)
        \/ \E command \in DirectArithmetic : call_write_arithmetic(w, command)
        \/ \E c \in DirectPushPop : call_write_push_pop(w, c[1], c[2], c[3])
        \/ call_close(w)

SpecCW == InitCW /\ [][NextCW]_vars

\* the comparisons among the calls of a log
RECURSIVE NumComparisons(_)
NumComparisons(log) ==
    IF log = <<>> THEN 0
    ELSE (IF Head(log) \in {"eq", "gt", "lt"} THEN 1 ELSE 0) + NumComparisons(Tail(log))

(***************************************************************************)
(* One operator block on the Hack machine: from a stack holding v1 below   *)
(* v2, the block write_arithmetic emits is loaded and run to its end.      *)
(***************************************************************************)
\* the operands tried: small values, small negatives, and the sign boundary
Operands ==
    (0..MaxOperand) \cup {Word - k : k \in 1..MaxOperand}
        \cup {Word \div 2 - 1, Word \div 2}

OpsWindow == {registers.sp} \cup ((StackBase - 1)..(StackBase + 4))

\* memory with the stack pointer at sp0, v1 and v2 on top of the stack, and
\* every other cell holding its own address
OpsMemory(sp0, v1, v2) ==
    [a \in OpsWindow |->
        IF a = registers.sp THEN sp0
        ELSE IF a = sp0 - 2 THEN v1
        ELSE IF a = sp0 - 1 THEN v2
        ELSE a]

InitOps ==
    /\ Unconstructed
    /\ \E sp0 \in {StackBase + 2, StackBase + 3} : \E v1 \in Operands : \E v2 \in Operands :
          /\ ram = OpsMemory(sp0, v1, v2)
          /\ ram0 = OpsMemory(sp0, v1, v2)

\* the one write_arithmetic call whose block is run
ops_write ==
    /\ TotalCalls = 0
    /\ \E command \in arithmetic_commands \cup {"mul"} : call_write_arithmetic(1, command)

\* the block just emitted is loaded, with the registers holding anything
ops_load ==
    /\ pc = "direct"
    /\ cpu.status = "off"
    /\ Len(cw[1].assembly) = 2
    /\ rom' = cw[1].assembly[2]
    /\ \E a \in {0, Word - 1} : \E d \in {0, Word - 1} :
          cpu' = CpuStart(cw[1].assembly[2], a, d)
    /\ UNCHANGED <<parser, cw, sink, pc, error, stdout, closes, deleted, history, calls,
                   ram, ram0>>

NextOps == construct(1) \/ ops_write \/ ops_load \/ cpu_step

SpecOps == InitOps /\ [][NextOps]_vars

(***************************************************************************)
(* Vocabulary of the properties.                                           *)
(***************************************************************************)
TheWriter == cw[1]

TheFile == sink[1]

Consumed == parser.current_instruction_index

\* the entries of the history that consumed an instruction
IsTurn(e) == e \in {"translated", "raised", "advanced", "failed"}

\* how each instruction consumed so far was consumed: entry i is about
\* instruction i of the retained lines
ConsumedHow == SelectSeq(history, IsTurn)

\* the closes so far, those of close() and that of __del__
IsClose(e) == e \in {"close", "del"}

NumCloses == Len(SelectSeq(history, IsClose))

\* one call of translate() and then nothing but closes: the turns of
\* translate() come first, and after a turn that raised none follows
SingleRun ==
    /\ \A i \in DOMAIN history : history[i] \in {"translated", "raised", "close", "del"}
    /\ \A i \in DOMAIN history : \A j \in DOMAIN history :
          (i < j /\ history[i] # "translated") => IsClose(history[j])

FirstToken(instruction) == Split(instruction)[1]

\* the instructions from_string takes for a label, goto, function, return or
\* call: those the else branch of translate() is for.  No first token gives
\* C_IF (the branch of from_string for "if-goto" is commented out), so an
\* if-goto instruction is not among them
IsControl(instruction) ==
    from_string(FirstToken(instruction)) \in
        {"C_LABEL", "C_GOTO", "C_IF", "C_FUNCTION", "C_RETURN", "C_CALL"}

IsPush(instruction) == FirstToken(instruction) = "push"

IsPop(instruction) == FirstToken(instruction) = "pop"

IsArithmetic(instruction) == FirstToken(instruction) \in arithmetic_commands

Segment(instruction) == Split(instruction)[2]

NonConstantSegments == {"local", "argument", "this", "that", "temp", "static", "pointer"}

\* the segments whose push and pop the code cannot translate (C4), and the
\* one segment name the table of bases knows, which it cannot translate either
UsesSegmentOfC4(instructions) ==
    \E i \in 1..Len(instructions) :
        /\ IsPush(instructions[i]) \/ IsPop(instructions[i])
        /\ Len(Split(instructions[i])) >= 2
        /\ Segment(instructions[i]) \in NonConstantSegments \cup DOMAIN default_bases

\* the epilogue blocks of a program
NumEpilogues(blocks) == Cardinality({i \in 1..Len(blocks) : blocks[i][1] = "(END)"})

\* the last comment line of a block, "" when it has none
RECURSIVE LastComment(_)
LastComment(block) ==
    IF block = <<>> THEN ""
    ELSE IF IsCommentLine(block[Len(block)]) THEN block[Len(block)]
    ELSE LastComment(SubSeq(block, 1, Len(block) - 1))

\* the instruction a block was emitted for: the words of its echo comment, or
\* the comparison whose jump it holds (a comparison block has no comment).
\* The echo comment is the last comment of the block: a push or pop block
\* starts with what a push or pop that raised before it left in the writer.
BlockOrigin(block) ==
    IF LastComment(block) # ""
    THEN SubSeq(LastComment(block), 4, Len(LastComment(block)))
    ELSE IF Len(block) >= 8 /\ block[8] = "D;JEQ" THEN "eq"
    ELSE IF Len(block) >= 8 /\ block[8] = "D;JGT" THEN "gt"
    ELSE IF Len(block) >= 8 /\ block[8] = "D;JLT" THEN "lt"
    ELSE block[1]

\* the words of an arithmetic, push or pop instruction, single-spaced
Words(instruction) ==
    LET t == Split(instruction)
    IN  IF IsArithmetic(instruction) THEN t[1]
        ELSE t[1] \o " " \o (IF Len(t) >= 2 THEN t[2] ELSE "")
                  \o " " \o (IF Len(t) >= 3 THEN t[3] ELSE "")

\* the arithmetic, push and pop instructions among the first n, in order
RECURSIVE Translatable(_, _)
Translatable(instructions, n) ==
    IF n = 0 THEN <<>>
    ELSE LET i == instructions[n]
         IN  Translatable(instructions, n - 1)
                 \o (IF IsArithmetic(i) \/ IsPush(i) \/ IsPop(i)
                     THEN <<Words(i)>> ELSE <<>>)

\* the buffer is the prologue, one block per arithmetic, push or pop instruction
\* among the first n of the input, in their order, and after them nothing but
\* epilogue blocks
BlocksFollow(n) ==
    LET blocks == TheWriter.assembly
        want == Translatable(parser.vm_instructions, n)
    IN  /\ Len(blocks) >= 1 + Len(want)
        /\ blocks[1] = prologue
        /\ \A i \in 1..Len(want) : BlockOrigin(blocks[1 + i]) = want[i]
        /\ \A i \in 2..Len(blocks) : blocks[i] # prologue
        /\ \A i \in (2 + Len(want))..Len(blocks) : blocks[i] = epilogue

\* the arithmetic, push and pop instructions among the first n that a turn of
\* translate() has translated, in order
RECURSIVE TranslatedSoFar(_)
TranslatedSoFar(n) ==
    IF n = 0 THEN <<>>
    ELSE LET i == parser.vm_instructions[n]
         IN  TranslatedSoFar(n - 1)
                 \o (IF /\ ConsumedHow[n] = "translated"
                        /\ IsArithmetic(i) \/ IsPush(i) \/ IsPop(i)
                     THEN <<Words(i)>> ELSE <<>>)

IsBody(block) == block # epilogue

\* the buffer is the prologue and, epilogue blocks apart, one block per
\* arithmetic, push or pop instruction translated so far, in their order;
\* it holds one epilogue block per close
BlocksOfTranslated ==
    LET blocks == TheWriter.assembly
        body == SelectSeq(Tail(blocks), IsBody)
        want == TranslatedSoFar(Consumed)
    IN  /\ Len(ConsumedHow) = Consumed
        /\ blocks # <<>>
        /\ blocks[1] = prologue
        /\ \A i \in 2..Len(blocks) : blocks[i] # prologue
        /\ Len(body) = Len(want)
        /\ \A i \in 1..Len(want) : BlockOrigin(body[i]) = want[i]
        /\ NumEpilogues(blocks) = NumCloses

\* blocks are appended: what the buffer held stays where it was
AppendOnly ==
    /\ Len(cw'[1].assembly) >= Len(cw[1].assembly)
    /\ SubSeq(cw'[1].assembly, 1, Len(cw[1].assembly)) = cw[1].assembly

\* the set bits of a word, and the word of a set of bits
Bits(x) == {i \in 0..(WordBits - 1) : (x \div Pow2(i)) % 2 = 1}

RECURSIVE FromBits(_)
FromBits(S) ==
    IF S = {} THEN 0
    ELSE LET i == CHOOSE j \in S : TRUE IN Pow2(i) + FromBits(S \ {i})

\* v1 op v2 on 16-bit words
BinaryResult(op, v1, v2) ==
    CASE op = "add" -> (v1 + v2) % Word
      [] op = "sub" -> (v1 - v2) % Word
      [] op = "and" -> FromBits(Bits(v1) \cap Bits(v2))
      [] op = "or" -> FromBits(Bits(v1) \cup Bits(v2))

\* the operator's jump condition on left - right, read as a signed word
ComparisonHolds(op, left, right) ==
    LET diff == Signed((left - right) % Word)
    IN  CASE op = "eq" -> diff = 0
          [] op = "gt" -> diff > 0
          [] op = "lt" -> diff < 0

\* the block under test has run to its end
BlockDone == cpu.status = "done" /\ Len(calls[1]) = 1

Sp0 == ram0[registers.sp]

(***************************************************************************)
(* The properties.                                                         *)
(***************************************************************************)

\* C1: close is idempotent for the output: however often close is triggered
\* (close() calls, the close of __del__) on a translator whose translate() has
\* returned, the program holds at most one epilogue block and the output file
\* is opened for writing at most once.
C1_CloseIsIdempotent ==
    pc = "returned" =>
        /\ NumEpilogues(TheWriter.assembly) <= 1
        /\ TheFile.opens <= 1

\* an instruction that is neither of a class from_string takes for control
\* nor a push or pop of a segment of C4: its first token is unrecognized
\* ("if-goto" included), a token is missing or its segment is unknown
BadInput(instruction) ==
    /\ ~IsControl(instruction)
    /\ ~UsesSegmentOfC4(<<instruction>>)

\* translate() was called once and raised, on an unrecognized first token, a
\* missing token or an unknown segment; the caller has made no other call
RaisedOnBadInput ==
    /\ pc = "raised"
    /\ Consumed >= 1
    /\ BadInput(current_raw_instruction(parser))
    /\ \A i \in DOMAIN history : history[i] \in {"translated", "raised", "del"}
    /\ \A i \in DOMAIN history : history[i] = "raised" => i = Consumed

\* C2: once translate() has raised, the output file is never opened or
\* written, on any path, teardown included: here with no close() call at all.
C2_NoOutputAfterError ==
    RaisedOnBadInput => (TheFile.opens = 0 /\ TheFile.lines = <<>>)

\* C3: a step that consumes a label, goto, if-goto, function, return or call
\* instruction (a turn of the translate loop, or advance() called directly)
\* raises nothing and leaves the program buffer as it was.  The five classes
\* from_string knows are IsControl; if-goto, which it does not know, is named
\* by its first token.
C3_ControlAccepted ==
    [][(/\ parser'.current_instruction_index = parser.current_instruction_index + 1
        /\ \/ IsControl(current_raw_instruction(parser'))
           \/ FirstToken(current_raw_instruction(parser')) = "if-goto")
       => (error' = "none" /\ cw'[1].assembly = cw[1].assembly)]_vars

\* C4: push constant k immediately followed by a pop into a slot of local,
\* argument, this, that, temp, static or pointer translates without an error
\* (and the emitted code then moves k into the slot): when translate() has
\* translated the push and gone on to the pop, the pop is translated too.
C4_PushThenPopTranslates ==
    (/\ Consumed >= 2
     /\ IsPush(parser.vm_instructions[Consumed - 1])
     /\ Len(Split(parser.vm_instructions[Consumed - 1])) >= 3
     /\ Segment(parser.vm_instructions[Consumed - 1]) = "constant"
     /\ ConsumedHow[Consumed - 1] = "translated"
     /\ IsPop(parser.vm_instructions[Consumed])
     /\ Len(Split(parser.vm_instructions[Consumed])) >= 3
     /\ Segment(parser.vm_instructions[Consumed]) \in NonConstantSegments
     /\ ConsumedHow[Consumed] \in {"translated", "raised"})
    => (ConsumedHow[Consumed] = "translated" /\ Len(TheWriter.assembly) >= 3)

\* C5: the block of add, sub, and, or leaves v1 op v2 in the slot that held
\* v1, the stack pointer one lower, and every other memory cell as it was.
C5_BinaryOperators ==
    (BlockDone /\ calls[1][1] \in {"add", "sub", "and", "or"})
    => /\ ram[Sp0 - 2] = BinaryResult(calls[1][1], ram0[Sp0 - 2], ram0[Sp0 - 1])
       /\ ram[registers.sp] = Sp0 - 1
       /\ \A a \in DOMAIN ram \ {registers.sp, Sp0 - 2} : ram[a] = ram0[a]

C5_Witness ==
    /\ BlockDone
    /\ calls[1][1] = "sub"
    /\ ram0[Sp0 - 2] = 1
    /\ ram0[Sp0 - 1] = 2
    /\ ram[Sp0 - 2] = Word - 1

\* C6: the block of eq, gt, lt pops both operands and pushes one value, all
\* ones when left - right meets the jump condition and zero when not; whichever
\* branch is taken, the stack pointer ends one below where it was.
C6_Comparisons ==
    (BlockDone /\ calls[1][1] \in {"eq", "gt", "lt"})
    => /\ ram[Sp0 - 2] = (IF ComparisonHolds(calls[1][1], ram0[Sp0 - 2], ram0[Sp0 - 1])
                          THEN Word - 1 ELSE 0)
       /\ ram[registers.sp] = Sp0 - 1
       /\ \A a \in DOMAIN ram \ {registers.sp, Sp0 - 2} : ram[a] = ram0[a]

C6_Witness ==
    /\ BlockDone
    /\ calls[1][1] = "gt"
    /\ ram0[Sp0 - 2] = 2
    /\ ram0[Sp0 - 1] = Word - 1
    /\ ram[Sp0 - 2] = Word - 1
    /\ ram[registers.sp] = Sp0 - 1

\* C7: in each CodeWriter the label counter is the number of comparisons made
\* on that instance so far (one more per comparison, from 0, whatever the other
\* instance did), each comparison has defined its two labels, and no label is
\* defined twice in the instance's program (the END label of the epilogue, which
\* no comparison defines, is left aside).
C7_LabelsAreUnique ==
    \A w \in Writers :
        LET text == Flatten(cw[w].assembly)
            n == NumComparisons(calls[w])
        IN  /\ cw[w].lt_counter = n
            /\ \A k \in 0..(n - 1) :
                  /\ LabelLines(text, "LT_TRUE_" \o ToString(k)) # {}
                  /\ LabelLines(text, "LT_END_" \o ToString(k)) # {}
            /\ LET labels == {i \in 1..Len(text) :
                                 IsLabelLine(text[i]) /\ text[i] # epilogue[1]}
               IN  \A i \in labels : \A j \in labels : i < j => text[i] # text[j]

C7_Witness ==
    /\ cw[1].lt_counter = 2
    /\ calls[1] = <<"eq", "push", "lt">>
    /\ cw[2] = CodeWriterInit(2)

\* C8: a program of push constant and the nine operators, run from the
\* prologue, halts with the stack pointer at 256 + its net push count.
C8_FinalStackPointer_AsStated ==
    /\ cpu.status \notin {"fault", "done"}
    /\ Halted => ram[registers.sp] = StackBase + NetPush(parser.vm_instructions)

\* the stack pointer the claim expects before instruction i
ExpectedSp(i) == StackBase + NetPush(SubSeq(parser.vm_instructions, 1, i - 1))

\* the stack stays clear of the registers: the expected stack pointer is a
\* word throughout, and at least 3 before every operator, whose block writes
\* up to two cells below it (the stack pointer itself is the cell at 0)
StackClearOfRegisters ==
    \A i \in 1..(Len(parser.vm_instructions) + 1) :
        /\ ExpectedSp(i) \in 0..(Word - 1)
        /\ (i <= Len(parser.vm_instructions) /\ ~IsPush(parser.vm_instructions[i]))
              => ExpectedSp(i) >= 3

\* C8, amended: a program of push constant and the nine operators in which the
\* stack pointer is at least 3 before every operator (and below 2^16
\* throughout), run from the prologue, halts with the stack pointer at 256 +
\* its net push count.
C8_FinalStackPointer ==
    /\ cpu.status \notin {"fault", "done"}
    /\ (Halted /\ StackClearOfRegisters)
          => ram[registers.sp] = StackBase + NetPush(parser.vm_instructions)

C8_Witness ==
    /\ Halted
    /\ StackClearOfRegisters
    /\ parser.vm_instructions = Adds(StackBase - 3) \o <<"neg">>
    /\ ram[registers.sp] = 3

\* C9: scenario A ends with 15 at address 257 and the stack pointer at 258.
C9_ScenarioA_AsStated ==
    (Halted /\ parser.vm_instructions = ScenarioA)
    => (ram[StackBase + 1] = 15 /\ ram[registers.sp] = StackBase + 2)

\* C9, amended: scenario A ends with 15 at address 256, the top of the stack,
\* and the stack pointer at 257.
C9_ScenarioA ==
    (Halted /\ parser.vm_instructions = ScenarioA)
    => (ram[StackBase] = 15 /\ ram[registers.sp] = StackBase + 1)

C9_Witness ==
    /\ Halted
    /\ parser.vm_instructions = ScenarioA
    /\ ram[StackBase] = 15

\* C10: the buffer is always the prologue followed by one block per arithmetic,
\* push or pop instruction consumed so far, in source order; blocks are only
\* appended and the prologue appears once.  Stated for one call of translate()
\* (epilogue blocks may follow once it has ended) on an input file that stays
\* clear of the segments of C4, so that what refutes it is not that defect.
C10_BlocksInOrder_AsStated ==
    /\ []((SingleRun /\ ~UsesSegmentOfC4(parser.vm_instructions))
             => BlocksFollow(Consumed))
    /\ [][AppendOnly]_vars

\* C10, amended: the buffer is always the prologue followed by one block per
\* arithmetic, push or pop instruction that translate() has translated so far,
\* in source order: an instruction on which translate() raised, and one the
\* caller consumed by calling advance() itself, has no block.  Among the
\* blocks stands one epilogue block per close, where the close was called.
\* Blocks are only appended and the prologue appears once.
C10_BlocksInOrder ==
    [](BlocksOfTranslated) /\ [][AppendOnly]_vars

C10_Witness ==
    /\ pc = "returned"
    /\ parser.vm_instructions = <<"push foo 0", "push constant 7">>
    /\ history = <<"raised", "translated">>
    /\ Len(TheWriter.assembly) = 2
    /\ TheWriter.assembly[2][1] = "// push foo 0"
    /\ BlockOrigin(TheWriter.assembly[2]) = "push constant 7"

====
